---------------------------- MODULE Spec2Model ----------------------------
(***************************************************************************)
(* Spectral biclustering (sklearn/bicluster/spectral.py) and the bicluster *)
(* consensus score (sklearn/metrics/cluster/bicluster/bicluster_metrics.py)*)
(*                                                                         *)
(* The estimator instance is its attribute dictionary `self`: a function   *)
(* from the attribute names set so far to their values.  The collaborators *)
(* svds and k_means are not part of these files: a call either raises or   *)
(* returns, and k_means returns any labels in 0..n_clusters-1.             *)
(***************************************************************************)
EXTENDS Integers, Sequences, FiniteSets, TLC

VARIABLES
    self,    \* the estimator's attribute dictionary
    raised,  \* the exception the last call raised, "none" when it returned
    call,    \* the last call on the estimator
    arg,     \* the arguments of the metric or helper function under check
    ret      \* what that function has computed

estVars == <<self, raised, call>>
funVars == <<arg, ret>>
vars == <<self, raised, call, arg, ret>>

\* ------------------------------------------------------------- bounds
MaxClusters == 2
MaxRows == 2
MaxCols == 2
\* the biclusters of one set handed to consensus_score
MaxBiclusters == 2
\* the candidate vectors handed to fit_best_piecewise, and their length
MaxVectors == 2
VecLen == 1

\* ------------------------------------------------- values and helpers
Range(s) == {s[i] : i \in DOMAIN s}
Min(m, n) == IF m <= n THEN m ELSE n
Max(m, n) == IF m >= n THEN m ELSE n

\* Python's None for maxiter and random_state.
None == 0

\* An int n_clusters is [tuple |-> FALSE, v |-> <<k>>]; a tuple keeps its items.
IntClusters(k) == [tuple |-> FALSE, v |-> <<k>>]
TupleClusters(t) == [tuple |-> TRUE, v |-> t]

NoAttrs == [x \in {} |-> 0]

SetAttrs(obj, new) == [x \in DOMAIN obj \cup DOMAIN new |->
                          IF x \in DOMAIN new THEN new[x] ELSE obj[x]]

ParamNames == {"n_clusters", "method", "n_singular_vectors", "n_best_vectors",
               "maxiter", "n_init", "random_state"}

\* ------------------------------------------------ SpectralBiclustering
DefaultSingularVectors == 6
DefaultBestVectors == 3
DefaultInit == 10

ValidMethods == {"dhillon", "bistochastic", "scale", "log"}

\* __init__ without its last check
InitErrorNoVectorCheck(args) ==
    IF args.method \notin ValidMethods THEN "unknown method"
    ELSE IF args.n_clusters.tuple /\ args.method = "dhillon"
         THEN "different number of clusters not supported when method=='dhillon'"
    ELSE IF args.n_clusters.tuple /\ Len(args.n_clusters.v) # 2
         THEN "unsupported number of clusters"
    ELSE "none"

\* The checks of __init__, in the code's order; "none" when none raises.
InitError(args) ==
    IF args.method \notin ValidMethods THEN "unknown method"
    ELSE IF args.n_clusters.tuple /\ args.method = "dhillon"
         THEN "different number of clusters not supported when method=='dhillon'"
    ELSE IF args.n_clusters.tuple /\ Len(args.n_clusters.v) # 2
         THEN "unsupported number of clusters"
    ELSE IF args.n_best_vectors > args.n_singular_vectors
         THEN "n_best_vectors > n_singular_vectors"
    ELSE "none"

\* The attributes __init__ has stored when it returns or raises.
InitStored(args) ==
    IF InitError(args) # "none" THEN NoAttrs
    ELSE [x \in ParamNames |-> args[x]]

\* est = SpectralBiclustering(**args)
Construct(args) ==
    /\ call.op = "none"
    /\ self' = InitStored(args)
    /\ raised' = InitError(args)
    /\ call' = [op |-> "init", args |-> args]
    /\ UNCHANGED funVars

\* est.method = m or est.n_clusters = n between two calls of fit
SetParam(name, value) ==
    /\ DOMAIN self # {}
    /\ self' = SetAttrs(self, (name :> value))
    /\ raised' = "none"
    /\ call' = [op |-> "set"]
    /\ UNCHANGED funVars

\* the indicators with <= for ==
IndicatorsUpTo(labels, k) ==
    [c \in 1..k |-> [i \in 1..Len(labels) |-> labels[i] <= c - 1]]

\* np.vstack(labels == c for c in range(k))
Indicators(labels, k) ==
    [c \in 1..k |-> [i \in 1..Len(labels) |-> labels[i] = c - 1]]

\* labels[0:n_rows] and labels[n_rows:]
RowPart(labels, n_rows) == SubSeq(labels, 1, n_rows)
ColPart(labels, n_rows) == SubSeq(labels, n_rows + 1, Len(labels))

\* The attributes _dhillon stores, given the labels k_means returned.
DhillonStored(labels, n_rows, k) ==
    [rows_ |-> Indicators(RowPart(labels, n_rows), k),
     columns_ |-> Indicators(ColPart(labels, n_rows), k)]

\* np.unique(v, return_inverse=True)[1]: each label's rank among the used ones
UniqueInverse(v) ==
    [i \in 1..Len(v) |-> Cardinality({x \in Range(v) : x < v[i]})]

\* the row indicators with the two loops swapped
KlugerRowsInner(row_labels, p, q) ==
    [idx \in 1..(p * q) |->
        [i \in 1..Len(row_labels) |-> row_labels[i] = (idx - 1) % p]]

\* rows.append(row_labels == row_label) for every (row_label, col_label)
KlugerRows(row_labels, p, q) ==
    [idx \in 1..(p * q) |->
        [i \in 1..Len(row_labels) |-> row_labels[i] = (idx - 1) \div q]]

\* cols.append(col_labels == col_label) for every (row_label, col_label)
KlugerCols(col_labels, p, q) ==
    [idx \in 1..(p * q) |->
        [j \in 1..Len(col_labels) |-> col_labels[j] = (idx - 1) % q]]

\* The attributes _kluger stores, given what project_and_cluster returned.
KlugerStored(row_vector, col_vector, p, q) ==
    [rows_ |-> KlugerRows(UniqueInverse(row_vector), p, q),
     columns_ |-> KlugerCols(UniqueInverse(col_vector), p, q),
     row_labels_ |-> UniqueInverse(row_vector),
     column_labels_ |-> UniqueInverse(col_vector)]

\* n_row_clusters, n_col_clusters of _kluger
RowClusters(n) == n.v[1]
ColClusters(n) == IF n.tuple THEN n.v[2] ELSE n.v[1]

LabelVectors(n, k) == [1..n -> 0..(k - 1)]

FitRaise(msg, X) ==
    /\ raised' = msg
    /\ call' = [op |-> "fit", ok |-> FALSE]
    /\ UNCHANGED <<self, funVars>>

FitStore(stored, X) ==
    /\ self' = SetAttrs(self, stored)
    /\ raised' = "none"
    /\ call' = [op |-> "fit", ok |-> TRUE, n_rows |-> X.n_rows, n_cols |-> X.n_cols]
    /\ UNCHANGED funVars

\* fit(X) when X.ndim != 2
FitBadShape(X) ==
    /\ DOMAIN self # {}
    /\ X.ndim # 2
    /\ FitRaise("data array must be 2 dimensional", X)

\* fit(X) when a collaborator (svds, k_means) raises: both strategies call
\* them before they store anything
FitCollaboratorRaises(X) ==
    /\ DOMAIN self # {}
    /\ X.ndim = 2
    /\ FitRaise("collaborator error", X)

\* fit(X) with method == 'dhillon'
FitDhillon(X) ==
    /\ DOMAIN self # {}
    /\ X.ndim = 2
    /\ self.method = "dhillon"
    /\ IF self.n_clusters.tuple
       THEN FitRaise("TypeError", X)
       ELSE \E labels \in LabelVectors(X.n_rows + X.n_cols, self.n_clusters.v[1]) :
               FitStore(DhillonStored(labels, X.n_rows, self.n_clusters.v[1]), X)

\* fit(X) with a checkerboard method
FitKluger(X) ==
    /\ DOMAIN self # {}
    /\ X.ndim = 2
    /\ self.method # "dhillon"
    /\ LET p == RowClusters(self.n_clusters)
           q == ColClusters(self.n_clusters)
       IN \E row_vector \in LabelVectors(X.n_rows, p),
             col_vector \in LabelVectors(X.n_cols, q) :
               FitStore(KlugerStored(row_vector, col_vector, p, q), X)

\* --------------------------------------------------- fit_best_piecewise
\* The entries of the candidate vectors and of the k-means centroids.
Values == {0, 1}

\* k_means(v.reshape(-1, 1), n_clusters): any centroids, any labels
k_means(v, n_clusters) ==
    [centroid : [1..n_clusters -> Values],
     labels : [1..Len(v) -> 0..(n_clusters - 1)]]

\* make_piecewise(v), given what k_means returned: centroid[labels]
make_piecewise(v, km) == [i \in 1..Len(v) |-> km.centroid[km.labels[i] + 1]]

\* The piecewise vectors make_piecewise may return for v.
PiecewiseOf(v, n_clusters) ==
    {make_piecewise(v, km) : km \in k_means(v, n_clusters)}

\* np.linalg.norm(u - v), squared: the order of the norms is the order of
\* their squares
RECURSIVE SqNormTo(_, _, _)
SqNormTo(u, v, i) ==
    IF i = 0 THEN 0
    ELSE SqNormTo(u, v, i - 1) + (u[i] - v[i]) * (u[i] - v[i])
SqNorm(u, v) == SqNormTo(u, v, Len(u))

\* the orders that sort dists the other way round
ArgsortDescending(dists) ==
    {order \in [DOMAIN dists -> DOMAIN dists] :
        /\ \A i, j \in DOMAIN dists : i # j => order[i] # order[j]
        /\ \A i \in DOMAIN dists :
              i > 1 => dists[order[i - 1]] >= dists[order[i]]}

\* np.argsort(dists): an order of the indices that sorts dists; equal
\* distances come in any order
Argsort(dists) ==
    {order \in [DOMAIN dists -> DOMAIN dists] :
        /\ \A i, j \in DOMAIN dists : i # j => order[i] # order[j]
        /\ \A i \in DOMAIN dists :
              i > 1 => dists[order[i - 1]] <= dists[order[i]]}

\* order[:k]
FirstK(order, k) == SubSeq(order, 1, Min(k, Len(order)))

\* vectors[index]
Take(vectors, index) == [i \in DOMAIN index |-> vectors[index[i]]]

\* fit_best_piecewise(vectors, k, n_clusters, ...)
FitBestPiecewise ==
    /\ "best" \notin DOMAIN ret
    /\ \E piecewise_vectors \in
            {pw \in [DOMAIN arg.vectors -> [1..VecLen -> Values]] :
                \A i \in DOMAIN arg.vectors :
                    pw[i] \in PiecewiseOf(arg.vectors[i], arg.n_clusters)} :
          LET dists == [i \in DOMAIN arg.vectors |->
                           SqNorm(arg.vectors[i], piecewise_vectors[i])]
          IN \E order \in Argsort(dists) :
                ret' = [piecewise_vectors |-> piecewise_vectors,
                        dists |-> dists,
                        index |-> FirstK(order, arg.k),
                        best |-> Take(arg.vectors, FirstK(order, arg.k))]
    /\ UNCHANGED <<arg, estVars>>

\* ---------------------------------------------------- bicluster metrics
\* A float is the fraction num/den; den = 0 is nan, which only 0/0 produces.
Frac(n, d) == [num |-> n, den |-> d]
IsNaN(x) == x.den = 0
Eq(x, y) == ~IsNaN(x) /\ ~IsNaN(y) /\ x.num * y.den = y.num * x.den
Leq(x, y) == ~IsNaN(x) /\ ~IsNaN(y) /\ x.num * y.den <= y.num * x.den
Add(x, y) == IF IsNaN(x) \/ IsNaN(y) THEN Frac(0, 0)
             ELSE Frac(x.num * y.den + y.num * x.den, x.den * y.den)
\* 1. - x
OneMinus(x) == Frac(x.den - x.num, x.den)
\* x / n for an integer n > 0
DivInt(x, n) == Frac(x.num, x.den * n)

\* v.sum() of a boolean vector
Count(v) == Cardinality({i \in DOMAIN v : v[i]})
\* u * v of two boolean vectors
Both(u, v) == [i \in DOMAIN u |-> u[i] /\ v[i]]

\* the coefficient with the union taken as a_size + b_size
jaccard_no_overlap(a_rows, a_cols, b_rows, b_cols) ==
    LET intersection == Count(Both(a_rows, b_rows)) * Count(Both(a_cols, b_cols))
        a_size == Count(a_rows) * Count(a_cols)
        b_size == Count(b_rows) * Count(b_cols)
    IN Frac(intersection, a_size + b_size)

\* _jaccard(a_rows, a_cols, b_rows, b_cols)
_jaccard(a_rows, a_cols, b_rows, b_cols) ==
    LET intersection == Count(Both(a_rows, b_rows)) * Count(Both(a_cols, b_cols))
        a_size == Count(a_rows) * Count(a_cols)
        b_size == Count(b_rows) * Count(b_cols)
    IN Frac(intersection, a_size + b_size - intersection)

\* _pairwise_similarity with similarity = _jaccard; a set of biclusters is
\* its row indicators and its column indicators, side by side
_pairwise_similarity(a, b) ==
    [i \in 1..Len(a.rows) |->
        [j \in 1..Len(b.rows) |->
            _jaccard(a.rows[i], a.cols[i], b.rows[j], b.cols[j])]]

\* 1. - matrix
Cost(matrix) ==
    [i \in DOMAIN matrix |-> [j \in DOMAIN matrix[i] |-> OneMinus(matrix[i][j])]]

Injections(m, n) ==
    {f \in [1..m -> 1..n] : \A i, j \in 1..m : i # j => f[i] # f[j]}

\* The one-to-one assignments of min(n_a, n_b) pairs (row, column).
Matchings(n_a, n_b) ==
    IF n_a <= n_b
    THEN {{<<i, f[i]>> : i \in 1..n_a} : f \in Injections(n_a, n_b)}
    ELSE {{<<f[j], j>> : j \in 1..n_b} : f \in Injections(n_b, n_a)}

RECURSIVE Total(_, _)
Total(P, cost) ==
    IF P = {} THEN Frac(0, 1)
    ELSE LET x == CHOOSE x \in P : TRUE
         IN Add(cost[x[1]][x[2]], Total(P \ {x}, cost))

\* The pairs of P as the array linear_assignment returns: ordered by row,
\* the order most favourable to the trace of consensus_score.
ByRow(P) ==
    [k \in 1..Cardinality(P) |->
        CHOOSE x \in P : Cardinality({y \in P : y[1] < x[1]}) = k - 1]

\* linear_assignment(cost): what the solver may return, any assignment of
\* least total cost
linear_assignment(cost) ==
    LET n_a == Len(cost)
        n_b == Len(cost[1])
        all == Matchings(n_a, n_b)
        total == [P \in all |-> Total(P, cost)]
    IN {ByRow(P) : P \in {P \in all : \A Q \in all : Leq(total[P], total[Q])}}

\* np.trace(m): the sum of the main diagonal of a matrix of any shape
RECURSIVE TraceTo(_, _)
TraceTo(m, d) == IF d = 0 THEN Frac(0, 1) ELSE Add(TraceTo(m, d - 1), m[d][d])
Trace(m) == TraceTo(m, Min(Len(m), Len(m[1])))

\* matrix[:, indices[:, 1]]
TakeColumns(matrix, indices) ==
    [i \in DOMAIN matrix |-> [k \in DOMAIN indices |-> matrix[i][indices[k][2]]]]

\* consensus_score(a, b), given the indices linear_assignment returned
consensus_score(a, b, indices) ==
    LET matrix == _pairwise_similarity(a, b)
        n_a == Len(a.rows)
        n_b == Len(b.rows)
    IN DivInt(Trace(TakeColumns(matrix, indices)), Max(n_a, n_b))

\* score = consensus_score(x, y), kept under `name`
Score(name, x, y) ==
    /\ name \notin DOMAIN ret
    /\ \E indices \in linear_assignment(Cost(_pairwise_similarity(x, y))) :
          ret' = SetAttrs(ret, (name :> [indices |-> indices,
                                        score |-> consensus_score(x, y, indices)]))
    /\ UNCHANGED <<arg, estVars>>

ScoreAB == Score("ab", arg.a, arg.b)
ScoreBA == Score("ba", arg.b, arg.a)

\* sim = _jaccard(a_rows, a_cols, b_rows, b_cols)
Jaccard ==
    /\ "sim" \notin DOMAIN ret
    /\ ret' = SetAttrs(ret, ("sim" :> _jaccard(arg.a_rows, arg.a_cols,
                                              arg.b_rows, arg.b_cols)))
    /\ UNCHANGED <<arg, estVars>>

\* ------------------------------------------------------------- inputs
RowIndicators == [1..MaxRows -> BOOLEAN]
ColIndicators == [1..MaxCols -> BOOLEAN]

\* The sets of one to MaxBiclusters biclusters, each with a row and a column.
BiclusterSets ==
    UNION {[rows : [1..n -> {v \in RowIndicators : Count(v) > 0}],
            cols : [1..n -> {v \in ColIndicators : Count(v) > 0}]] :
           n \in 1..MaxBiclusters}

ClusterCounts == 1..MaxClusters

Pairs == {<<p, q>> : p \in ClusterCounts, q \in ClusterCounts}

AllClusterArgs == {IntClusters(k) : k \in ClusterCounts}
                  \cup {TupleClusters(t) : t \in Pairs}
                  \cup {TupleClusters(<<1>>), TupleClusters(<<1, 1, 1>>)}

FitClusterArgs == {IntClusters(k) : k \in ClusterCounts}
                  \cup {TupleClusters(t) : t \in Pairs}

VectorCounts == {DefaultBestVectors, DefaultSingularVectors}

AllArgs == [n_clusters : AllClusterArgs,
            method : ValidMethods \cup {"kluger"},
            n_singular_vectors : VectorCounts,
            n_best_vectors : VectorCounts,
            maxiter : {None, 5},
            n_init : {DefaultInit, 1},
            random_state : {None, 1}]

DefaultArgs == [n_clusters : FitClusterArgs,
                method : ValidMethods,
                n_singular_vectors : {DefaultSingularVectors},
                n_best_vectors : {DefaultBestVectors},
                maxiter : {None},
                n_init : {DefaultInit},
                random_state : {None}]

Matrices == [ndim : {2}, n_rows : 1..MaxRows, n_cols : 1..MaxCols]
            \cup {[ndim |-> 1, n_rows |-> 1, n_cols |-> 1],
                  [ndim |-> 3, n_rows |-> 1, n_cols |-> 1]}

\* ------------------------------------------------------ specifications
EstInit ==
    /\ self = NoAttrs
    /\ raised = "none"
    /\ call = [op |-> "none"]

FunIdle ==
    /\ arg = NoAttrs
    /\ ret = NoAttrs

Init == EstInit /\ FunIdle

Fresh == "rows_" \notin DOMAIN self

\* One estimator with the documented arguments and its first fit.
Next ==
    \/ \E args \in DefaultArgs : Construct(args)
    \/ \E X \in Matrices : Fresh /\ FitBadShape(X)
    \/ \E X \in Matrices : Fresh /\ FitCollaboratorRaises(X)
    \/ \E X \in Matrices : Fresh /\ FitDhillon(X)
    \/ \E X \in Matrices : Fresh /\ FitKluger(X)

Spec == Init /\ [][Next]_vars

\* One estimator fitted again and again, its parameters changed in between.
NextRefit ==
    \/ \E args \in DefaultArgs : Construct(args)
    \/ \E m \in ValidMethods : SetParam("method", m)
    \/ \E n \in FitClusterArgs : SetParam("n_clusters", n)
    \/ \E X \in Matrices : FitBadShape(X)
    \/ \E X \in Matrices : FitCollaboratorRaises(X)
    \/ \E X \in Matrices : FitDhillon(X)
    \/ \E X \in Matrices : FitKluger(X)

SpecRefit == Init /\ [][NextRefit]_vars

\* consensus_score(a, b) and consensus_score(b, a) of two bicluster sets.
InitScore ==
    /\ EstInit
    /\ arg \in [a : BiclusterSets, b : BiclusterSets]
    /\ ret = NoAttrs

NextScore == ScoreAB \/ ScoreBA

SpecScore == InitScore /\ [][NextScore]_vars

\* consensus_score(a, a) of one bicluster set.
InitSelf ==
    /\ EstInit
    /\ \E s \in BiclusterSets : arg = [a |-> s, b |-> s]
    /\ ret = NoAttrs

NextSelf == ScoreAB

SpecSelf == InitSelf /\ [][NextSelf]_vars

\* _jaccard of any two biclusters, empty ones included.
InitJaccard ==
    /\ EstInit
    /\ arg \in [a_rows : RowIndicators, a_cols : ColIndicators,
                 b_rows : RowIndicators, b_cols : ColIndicators]
    /\ ret = NoAttrs

NextJaccard == Jaccard

SpecJaccard == InitJaccard /\ [][NextJaccard]_vars

\* fit_best_piecewise on any batch of one to MaxVectors vectors.
InitPiecewise ==
    /\ EstInit
    /\ arg \in [vectors : UNION {[1..n -> [1..VecLen -> Values]] : n \in 1..MaxVectors},
                 k : 0..(MaxVectors + 1),
                 n_clusters : 1..MaxClusters]
    /\ ret = NoAttrs

NextPiecewise == FitBestPiecewise

SpecPiecewise == InitPiecewise /\ [][NextPiecewise]_vars

\* The constructor on any arguments.
NextInit == \E args \in AllArgs : Construct(args)

SpecInit == Init /\ [][NextInit]_vars

\* ------------------------------------------------------------- claims
FitReturned == call.op = "fit" /\ call.ok

TrueAt(indicators, i) == {c \in DOMAIN indicators : indicators[c][i]}

\* C4: after a fit with method 'dhillon' and n_clusters = k, rows_ and
\* columns_ have k rows each, every row index is True in exactly one row of
\* rows_ and every column index in exactly one row of columns_.
C4_DhillonHardPartition ==
    (FitReturned /\ self.method = "dhillon") =>
        LET k == self.n_clusters.v[1]
        IN /\ Len(self.rows_) = k
           /\ Len(self.columns_) = k
           /\ \A c \in 1..k : /\ Len(self.rows_[c]) = call.n_rows
                               /\ Len(self.columns_[c]) = call.n_cols
           /\ \A i \in 1..call.n_rows : Cardinality(TrueAt(self.rows_, i)) = 1
           /\ \A j \in 1..call.n_cols : Cardinality(TrueAt(self.columns_, j)) = 1

\* A dhillon fit with MaxClusters clusters, two rows in different clusters.
C4_Witness ==
    /\ FitReturned
    /\ self.method = "dhillon"
    /\ self.n_clusters.v[1] = MaxClusters
    /\ call.n_rows >= 2
    /\ \E c, d \in 1..MaxClusters : c # d /\ self.rows_[c][1] /\ self.rows_[d][2]

BadArgs(args) ==
    \/ args.method \notin {"dhillon", "bistochastic", "scale", "log"}
    \/ args.n_clusters.tuple /\ args.method = "dhillon"
    \/ args.n_clusters.tuple /\ Len(args.n_clusters.v) # 2
    \/ args.n_best_vectors > args.n_singular_vectors

WithDefaultVectors(args) ==
    [args EXCEPT !.n_singular_vectors = DefaultSingularVectors,
                 !.n_best_vectors = DefaultBestVectors]

\* C7: with method 'dhillon' the constructor behaves, whatever
\* n_singular_vectors and n_best_vectors are, as it does with their defaults.
C7_DhillonIgnoresVectorCounts ==
    (call.op = "init" /\ call.args.method = "dhillon") =>
        /\ raised = InitError(WithDefaultVectors(call.args))
        /\ DOMAIN self = DOMAIN InitStored(WithDefaultVectors(call.args))

\* C8: after a fit that returned, row_labels_ and column_labels_ are present
\* only if that fit used a checkerboard method.
C8_OnlyLastFitRemains ==
    FitReturned =>
        \A x \in {"row_labels_", "column_labels_"} :
            x \in DOMAIN self => self.method # "dhillon"

\* The similarities at the pairs (i, j) of an assignment, summed.
RECURSIVE MatchedTo(_, _, _)
MatchedTo(matrix, indices, k) ==
    IF k = 0 THEN Frac(0, 1)
    ELSE Add(MatchedTo(matrix, indices, k - 1),
             matrix[indices[k][1]][indices[k][2]])

\* C1: consensus_score(a, b) equals consensus_score(b, a).
C1_ScoreSymmetric ==
    ("ab" \in DOMAIN ret /\ "ba" \in DOMAIN ret) =>
        Eq(ret.ab.score, ret.ba.score)

\* C2: consensus_score(a, b) is the sum of the similarities at the
\* min(n_a, n_b) pairs of the least-cost assignment, over max(n_a, n_b).
C2_ScoreIsMatchedSum ==
    "ab" \in DOMAIN ret =>
        LET matrix == _pairwise_similarity(arg.a, arg.b)
            indices == ret.ab.indices
        IN /\ Len(indices) = Min(Len(arg.a.rows), Len(arg.b.rows))
           /\ Eq(ret.ab.score,
                 DivInt(MatchedTo(matrix, indices, Len(indices)),
                        Max(Len(arg.a.rows), Len(arg.b.rows))))

PairwiseDistinct(s) ==
    \A i, j \in DOMAIN s.rows :
        i # j => s.rows[i] # s.rows[j] \/ s.cols[i] # s.cols[j]

NonEmpty(s) ==
    \A i \in DOMAIN s.rows : Count(s.rows[i]) > 0 /\ Count(s.cols[i]) > 0

\* C3: consensus_score(a, a) is exactly 1.0 when the biclusters of a are
\* pairwise distinct and non-empty, whichever assignment the solver returns.
C3_SelfScoreIsOne ==
    ("ab" \in DOMAIN ret /\ arg.a = arg.b
        /\ PairwiseDistinct(arg.a) /\ NonEmpty(arg.a)) =>
        ret.ab.score.num = ret.ab.score.den /\ ~IsNaN(ret.ab.score)

\* consensus_score(a, a) of MaxBiclusters distinct biclusters that overlap.
C3_Witness ==
    /\ "ab" \in DOMAIN ret
    /\ arg.a = arg.b
    /\ Len(arg.a.rows) = MaxBiclusters
    /\ PairwiseDistinct(arg.a)
    /\ \E i \in 1..MaxRows : arg.a.rows[1][i] /\ arg.a.rows[2][i]
    /\ \E j \in 1..MaxCols : arg.a.cols[1][j] /\ arg.a.cols[2][j]

Empty(rows, cols) == Count(rows) = 0 \/ Count(cols) = 0

JaccardFacts(sim) ==
    /\ ~IsNaN(sim)
    /\ Leq(Frac(0, 1), sim)
    /\ Leq(sim, Frac(1, 1))
    /\ Eq(sim, Frac(1, 1)) <=>
           (arg.a_rows = arg.b_rows /\ arg.a_cols = arg.b_cols)
    /\ Eq(sim, Frac(0, 1)) <=>
           (Count(Both(arg.a_rows, arg.b_rows)) = 0
               \/ Count(Both(arg.a_cols, arg.b_cols)) = 0)

\* C9 as amended: when at least one of the two biclusters has a row and a
\* column, _jaccard is a value in [0, 1], 1 iff the indicators are
\* identical, 0 iff no row or no column is shared.
C9_JaccardRange ==
    ("sim" \in DOMAIN ret
        /\ ~(Empty(arg.a_rows, arg.a_cols) /\ Empty(arg.b_rows, arg.b_cols))) =>
        JaccardFacts(ret.sim)

\* Two different biclusters that overlap in part.
C9_Witness ==
    /\ "sim" \in DOMAIN ret
    /\ ~Empty(arg.a_rows, arg.a_cols)
    /\ ~Empty(arg.b_rows, arg.b_cols)
    /\ Leq(ret.sim, Frac(1, 2))
    /\ ~Eq(ret.sim, Frac(0, 1))

\* C9 as stated: for any two biclusters _jaccard is a value in [0, 1], 1
\* iff the indicators are identical, 0 iff no row or no column is shared.
C9_JaccardAlwaysDefined ==
    "sim" \in DOMAIN ret => JaccardFacts(ret.sim)

BestFacts ==
    /\ \A i \in DOMAIN ret.best :
          /\ ret.index[i] \in DOMAIN arg.vectors
          /\ ret.best[i] = arg.vectors[ret.index[i]]
    /\ \A i, j \in DOMAIN ret.index : i # j => ret.index[i] # ret.index[j]
    /\ \A i \in DOMAIN arg.vectors :
          ret.dists[i] = SqNorm(arg.vectors[i], ret.piecewise_vectors[i])
    /\ \A i, j \in DOMAIN ret.index :
          i < j => ret.dists[ret.index[i]] <= ret.dists[ret.index[j]]
    /\ \A i \in DOMAIN ret.index :
          \A j \in DOMAIN arg.vectors \ Range(ret.index) :
              ret.dists[ret.index[i]] <= ret.dists[j]

\* C10 as amended: fit_best_piecewise returns min(k, n) of the n input
\* vectors (k of them whenever k <= n), each the unchanged input vector at
\* an index of its own, in order of non-decreasing distance to its piecewise
\* approximation, and no vector left out is closer than one returned.
C10_BestPiecewise ==
    "best" \in DOMAIN ret =>
        /\ Len(ret.best) = Min(arg.k, Len(arg.vectors))
        /\ Len(ret.index) = Len(ret.best)
        /\ BestFacts

\* Two of the vectors are returned, the closer one first, the second one
\* different from its approximation.
C10_Witness ==
    /\ "best" \in DOMAIN ret
    /\ arg.k = 2
    /\ Len(arg.vectors) >= 2
    /\ ret.dists[ret.index[1]] < ret.dists[ret.index[2]]
    /\ ret.best[2] # ret.piecewise_vectors[ret.index[2]]

\* C10 as stated: fit_best_piecewise returns exactly k vectors, for any
\* batch and any k, each an unchanged input vector, none twice, in order of
\* non-decreasing distance.
C10_ExactlyK ==
    "best" \in DOMAIN ret =>
        /\ Len(ret.best) = arg.k
        /\ Len(ret.index) = Len(ret.best)
        /\ BestFacts
=============================================================================
